---- MODULE Spec2Model ----
(***************************************************************************)
(* Model of bot.py: the transfer-feed monitor (load_state, monitor,        *)
(* save_state), the timestamp formatter (when_str), the image resolvers    *)
(* (probe_image, resolve_image_id, fetch_logo_from_slug) and build_embed.  *)
(*                                                                         *)
(* Python values that are falsy (None, "", 0) take the same branch in      *)
(* every test of the source (`if not x`, `x or default`), so an absent     *)
(* string is the empty string "" and an absent URL is the empty tuple.     *)
(***************************************************************************)
EXTENDS Integers, Sequences, FiniteSets, TLC

VARIABLES
    file,            \* content of STATE_FILE on disk
    state,           \* monitor's local `state["last_ids"]` (key -> cursor)
    pc,              \* position of monitor: "idle" (invoked), "feed", "fetch",
                     \* "notify", "save", "done" (returned)
    fi,              \* index into SOURCES of the feed of the for loop
    last_seen,       \* monitor's local last_seen
    new_items,       \* the records of new_items the inner loop has still to visit
    cycles,          \* number of monitor invocations that have returned
    imageid_cache,   \* image_id -> URL
    logo_cache,      \* slug -> URL
    upstream,        \* replay runs: the response each feed gives in every cycle
    pass,            \* history: the pass over the current feed
    cyc,             \* history: the current cycle
    prevEnd,         \* history: a cycle has run to its save_state
    input,           \* build_embed runs: the row build_embed is called with
    call,            \* history: the last direct call of a resolver or of build_embed
    earlier          \* history: per resolver and argument, what earlier calls returned

vars == <<file, state, pc, fi, last_seen, new_items, cycles, imageid_cache,
          logo_cache, upstream, pass, cyc, prevEnd, input, call, earlier>>

monitorVars == <<file, state, pc, fi, last_seen, new_items, cycles, upstream,
                 pass, cyc, prevEnd>>

----------------------------------------------------------------------------
(* Bounds *)

MaxId == 2        \* record ids and cursors range over 0..MaxId
MaxRows == 2      \* rows in one feed response
MaxCycles == 2    \* monitor invocations in one replay run

----------------------------------------------------------------------------
(* Configuration: SOURCES *)

SOURCES ==
    << [key |-> "Holland", label |-> "Holland", color |-> "blurple"],
       [key |-> "Holland-5v5-next", label |-> "Holland 5v5 Next", color |-> "orange"] >>

Feeds == 1..Len(SOURCES)

SourceKeys == {SOURCES[i].key : i \in Feeds}

Max(a, b) == IF a >= b THEN a ELSE b

----------------------------------------------------------------------------
(* State store *)

EmptyMap == [k \in {} |-> 0]

\* _empty_state()["last_ids"]
EmptyState == [k \in SourceKeys |-> 0]

\* Shapes of STATE_FILE: absent, not JSON, JSON of another shape
\* ({"last_ids": 5}), the old single-feed {"last_id": N}, and the current
\* {"last_ids": {key: N, ...}}.
FileOf(kind, ids, n) == [kind |-> kind, last_ids |-> ids, last_id |-> n]

MultiFile(ids) == FileOf("multi", ids, 0)

\* Mutant: the keys of SOURCES the file lacks get no default.
load_state_nodefault(f, ioerr) ==
    IF ioerr \/ f.kind \in {"missing", "malformed", "wrongshape", "legacy"}
    THEN EmptyState
    ELSE f.last_ids

\* load_state(): ioerr is an OSError of open()/read().
load_state(f, ioerr) ==
    IF ioerr \/ f.kind \in {"missing", "malformed", "wrongshape"}
    THEN EmptyState                       \* except Exception: _empty_state()
    ELSE IF f.kind = "legacy"
    THEN EmptyState                       \* "last_ids" not in data
    ELSE [k \in (DOMAIN f.last_ids) \cup SourceKeys |->
             IF k \in DOMAIN f.last_ids THEN f.last_ids[k] ELSE 0]

SaveOutcomes == {"ok", "open_failed", "write_failed"}

\* Mutant: the file is written with every cursor 0.
save_state_zeros(f, st, outcome) ==
    IF outcome = "ok" THEN MultiFile(EmptyState) ELSE f

\* save_state(state): open(..., "w") may fail (file untouched), the dump may
\* fail after the file was truncated (file no longer JSON); both are swallowed.
save_state(f, st, outcome) ==
    CASE outcome = "ok" -> MultiFile(st)
      [] outcome = "open_failed" -> f
      [] OTHER -> FileOf("malformed", EmptyMap, 0)

----------------------------------------------------------------------------
(* Timestamps.  A "datetime" string is kept by the fields fromisoformat    *)
(* reads from it: month, day, hour and UTC offset in hours (a trailing "Z" *)
(* is offset 0 after ts.replace("Z", "+00:00")).  A string whose month or  *)
(* hour is out of range stands for the strings fromisoformat rejects.      *)

Ts(mon, day, hour, off) ==
    [present |-> TRUE, mon |-> mon, day |-> day, hour |-> hour, off |-> off]

NoTs == [present |-> FALSE, mon |-> 0, day |-> 0, hour |-> 0, off |-> 0]

\* datetime.fromisoformat succeeds
IsoParsable(ts) ==
    ts.present /\ ts.mon \in 1..12 /\ ts.day \in 1..28 /\ ts.hour \in 0..23
        /\ ts.off \in -12..14

\* UTC offset of Europe/Amsterdam: CEST in April..September, CET in
\* November..February (March and October are not drawn as inputs).
AmsOffset(mon) == IF mon \in 4..9 THEN 2 ELSE 1

Footer(kind, mon, day, hour, tz, raw) ==
    [kind |-> kind, mon |-> mon, day |-> day, hour |-> hour, tz |-> tz, raw |-> raw]

FooterUnknown == Footer("unknown", 0, 0, 0, "", NoTs)

\* .astimezone(ZoneInfo("Europe/Amsterdam")) then strftime
AmsFormat(ts) ==
    LET local == ts.hour - ts.off + AmsOffset(ts.mon) + 24
    IN  Footer("formatted", ts.mon, ts.day + (local \div 24) - 1, local % 24,
               IF AmsOffset(ts.mon) = 2 THEN "CEST" ELSE "CET", NoTs)

\* when_str(ts)
when_str(ts) ==
    IF ~ts.present THEN FooterUnknown
    ELSE IF IsoParsable(ts) THEN AmsFormat(ts)
    ELSE Footer("raw", 0, 0, 0, "", ts)      \* return ts or "unknown"

----------------------------------------------------------------------------
(* Record ids *)

\* The "id" of a row as JSON gives it: absent, null, a string that is not a
\* number, a string of digits, or a number.
RawId(t, n) == [t |-> t, n |-> n]

IdMissing == RawId("missing", 0)
IdNull == RawId("null", 0)
IdText == RawId("text", 0)
IdInt(n) == RawId("int", n)
IdNumStr(n) == RawId("numstr", n)

\* rid(x): int(x.get("id", 0)), 0 on any exception
rid(x) ==
    CASE x.id.t = "missing" -> 0          \* default of get
      [] x.id.t = "null" -> 0             \* int(None): TypeError
      [] x.id.t = "text" -> 0             \* int("abc"): ValueError
      [] OTHER -> x.id.n

----------------------------------------------------------------------------
(* Image resolution.  The network is an oracle `net`: net.head[url] is the *)
(* answer to HEAD url, net.page[slug] the answer to GET /team/<slug>.      *)

NoUrl == <<>>

HeadResp(exc, status, ct, final) ==
    [exc |-> exc, status |-> status, ct |-> ct, url |-> final]

\* r.headers.get("content-type", "").lower()
Lower(ct) ==
    CASE ct = "IMAGE/WEBP" -> "image/webp"
      [] ct = "Image/PNG" -> "image/png"
      [] OTHER -> ct

\* "image" in ct, over the content types the oracle answers with
ContainsImage(ct) == ct \in {"image/png", "image/webp"}

\* Mutant: any answer with status 200 passes the probe.
probe_image_anytype(net, url) ==
    IF url = NoUrl THEN NoUrl
    ELSE IF ~net.head[url].exc /\ net.head[url].status = 200
    THEN net.head[url].url ELSE NoUrl

\* probe_image(session, url)
probe_image(net, url) ==
    IF url = NoUrl THEN NoUrl
    ELSE LET r == net.head[url]
             ct == Lower(r.ct)
         IN  IF r.exc THEN NoUrl
             ELSE IF r.status = 200
                     /\ (ContainsImage(ct) \/ ct = "application/octet-stream")
             THEN r.url
             ELSE NoUrl

\* candidates of resolve_image_id
Candidates(image_id) ==
    << <<"virtualprogaming.com/media", image_id, "png">>,
       <<"virtualprogaming.com/media", image_id, "webp">>,
       <<"api.virtualprogaming.com/public/media", image_id, "png">>,
       <<"api.virtualprogaming.com/public/media", image_id, "webp">> >>

CachePut(cache, k, v) ==
    [x \in (DOMAIN cache) \cup {k} |-> IF x = k THEN v ELSE cache[x]]

Resolved(url, cache, reqs) == [url |-> url, cache |-> cache, reqs |-> reqs]

\* Mutant: a failed resolution is cached too.
ProbeCandidates_cachefail(net, cache, image_id) ==
    LET c == Candidates(image_id)
        oks == {k \in DOMAIN c : probe_image(net, c[k]) # NoUrl}
    IN  IF oks = {} THEN Resolved(NoUrl, CachePut(cache, image_id, NoUrl), Len(c))
        ELSE LET k == CHOOSE j \in oks : \A i \in oks : j <= i
                 ok == probe_image(net, c[k])
             IN  Resolved(ok, CachePut(cache, image_id, ok), k)

\* The candidate loop of resolve_image_id: reqs counts the HEAD requests.
ProbeCandidates(net, cache, image_id) ==
    LET c == Candidates(image_id)
        oks == {k \in DOMAIN c : probe_image(net, c[k]) # NoUrl}
    IN  IF oks = {} THEN Resolved(NoUrl, cache, Len(c))
        ELSE LET k == CHOOSE j \in oks : \A i \in oks : j <= i
                 ok == probe_image(net, c[k])
             IN  Resolved(ok, CachePut(cache, image_id, ok), k)

\* Mutant: the cache is never consulted.
resolve_image_id_nocache(net, cache, image_id) ==
    IF image_id = "" THEN Resolved(NoUrl, cache, 0)
    ELSE ProbeCandidates(net, cache, image_id)

\* resolve_image_id(session, image_id)
resolve_image_id(net, cache, image_id) ==
    IF image_id = "" THEN Resolved(NoUrl, cache, 0)
    ELSE IF image_id \in DOMAIN cache THEN Resolved(cache[image_id], cache, 0)
    ELSE ProbeCandidates(net, cache, image_id)

\* Answer to GET /team/<slug>: og is the content of the og:image meta tag the
\* first regex finds, media the first /media/... URL the second regex finds
\* (NoUrl when the regex does not match).
PageResp(exc, status, og, media) ==
    [exc |-> exc, status |-> status, og |-> og, media |-> media]

\* The body of fetch_logo_from_slug after the cache lookup.
ScrapeLogo(net, cache, slug) ==
    LET p == net.page[slug]
        okOg == probe_image(net, p.og)
        okMedia == probe_image(net, p.media)
        nOg == IF p.og = NoUrl THEN 0 ELSE 1
        nMedia == IF p.media = NoUrl THEN 0 ELSE 1
    IN  IF p.exc THEN Resolved(NoUrl, cache, 1)
        ELSE IF p.status # 200 THEN Resolved(NoUrl, cache, 1)
        ELSE IF okOg # NoUrl
        THEN Resolved(okOg, CachePut(cache, slug, okOg), 2)
        ELSE IF okMedia # NoUrl
        THEN Resolved(okMedia, CachePut(cache, slug, okMedia), 1 + nOg + 1)
        ELSE Resolved(NoUrl, cache, 1 + nOg + nMedia)

\* fetch_logo_from_slug(session, slug)
fetch_logo_from_slug(net, cache, slug) ==
    IF slug = "" THEN Resolved(NoUrl, cache, 0)
    ELSE IF slug \in DOMAIN cache THEN Resolved(cache[slug], cache, 0)
    ELSE ScrapeLogo(net, cache, slug)

----------------------------------------------------------------------------
(* Notification builder *)

\* A row of a feed response; "" / NoTs / 0 stand for an absent field.
Row(id, ts, user, frm, to, avatar, amount) ==
    [id |-> id, datetime |-> ts, username |-> user,
     from_name |-> frm.name, from_slug |-> frm.slug, from_logo |-> frm.logo,
     to_name |-> to.name, to_slug |-> to.slug, to_logo |-> to.logo,
     avatar |-> avatar, amount |-> amount]

Team(name, slug, logo) == [name |-> name, slug |-> slug, logo |-> logo]

NoTeam == Team("", "", "")

\* x or d
Or(x, d) == IF x = "" THEN d ELSE x

\* A From/To field: a link to the team page when the slug exists.
TeamField(name, slug) ==
    [name |-> Or(name, "Free agent"), link |-> slug]

NoEmbed ==
    [title |-> <<"", "">>, description |-> <<"", "">>, color |-> "",
     timestamp |-> NoTs, from |-> TeamField("", ""), to |-> TeamField("", ""),
     fee |-> 0, footer |-> FooterUnknown, thumbnail |-> NoUrl, image |-> NoUrl]

Built(raised, emb, ic, lc, reqs) ==
    [raised |-> raised, emb |-> emb, ic |-> ic, lc |-> lc, reqs |-> reqs]

\* Mutant: the source logo is preferred.
big_source_first(to_logo_url, from_logo_url) ==
    IF from_logo_url # NoUrl THEN from_logo_url ELSE to_logo_url

\* big = to_logo_url or from_logo_url
big(to_logo_url, from_logo_url) ==
    IF to_logo_url # NoUrl THEN to_logo_url ELSE from_logo_url

\* build_embed(session, r, src_label, src_color): raised is the ValueError of
\* datetime.fromisoformat in the Embed constructor.
build_embed(net, ic, lc, r, src) ==
    LET ts == r.datetime
        avatar == resolve_image_id(net, ic, r.avatar)
        toId == resolve_image_id(net, avatar.cache, r.to_logo)
        toSlug == IF toId.url # NoUrl THEN Resolved(NoUrl, lc, 0)
                  ELSE fetch_logo_from_slug(net, lc, r.to_slug)
        to_logo_url == IF toId.url # NoUrl THEN toId.url ELSE toSlug.url
        fromId == resolve_image_id(net, toId.cache, r.from_logo)
        fromSlug == IF fromId.url # NoUrl THEN Resolved(NoUrl, toSlug.cache, 0)
                    ELSE fetch_logo_from_slug(net, toSlug.cache, r.from_slug)
        from_logo_url == IF fromId.url # NoUrl THEN fromId.url ELSE fromSlug.url
        emb == [title |-> <<src.label, Or(r.username, "unknown")>>,
                description |-> <<Or(r.from_name, "Free agent"),
                                  Or(r.to_name, "Free agent")>>,
                color |-> src.color,
                timestamp |-> ts,
                from |-> TeamField(r.from_name, r.from_slug),
                to |-> TeamField(r.to_name, r.to_slug),
                fee |-> r.amount,
                footer |-> when_str(ts),
                thumbnail |-> avatar.url,
                image |-> big(to_logo_url, from_logo_url)]
    IN  IF ts.present /\ ~IsoParsable(ts)
        THEN Built(TRUE, NoEmbed, ic, lc, 0)
        ELSE Built(FALSE, emb, fromId.cache, fromSlug.cache,
                   avatar.reqs + toId.reqs + toSlug.reqs + fromId.reqs + fromSlug.reqs)

\* The plain-text fallback line of monitor.
FallbackText(r, src) ==
    [label |-> src.label, user |-> Or(r.username, "unknown"),
     frm |-> Or(r.from_name, "Free agent"), to |-> Or(r.to_name, "Free agent"),
     when |-> when_str(r.datetime)]

----------------------------------------------------------------------------
(* Inputs of the monitor *)

TsGood == Ts(1, 15, 10, 0)      \* "....-01-15T10:00:00Z"
TsBad == Ts(13, 15, 10, 0)      \* month 13: fromisoformat raises ValueError

\* A row that carries only an id and a datetime.
PlainRow(id, ts) == Row(id, ts, "", NoTeam, NoTeam, "", 0)

\* Rows of the monitor runs: one row whose id is not a number, a row for
\* every id, and a row whose datetime build_embed cannot parse.
MonitorRows ==
    {PlainRow(IdText, TsGood), PlainRow(IdInt(1), TsBad)}
    \cup {PlainRow(IdInt(n), TsGood) : n \in 1..MaxId}

SeqsUpTo(S, n) == UNION {[1..k -> S] : k \in 0..n}

\* What the GET of a feed ends in: an exception of the transport, a status
\* other than 200, a body resp.json() rejects, or a payload with its rows
\* (payload.get("data", [])).
Resp(kind, rows) == [kind |-> kind, rows |-> rows]

NoResp == Resp("none", <<>>)

FailedResponses ==
    {Resp(k, <<>>) : k \in {"transport_error", "non200", "unparsable"}}

Responses ==
    FailedResponses \cup {Resp("ok", rows) : rows \in SeqsUpTo(MonitorRows, MaxRows)}

\* The oracle of a run whose rows name no image: every request fails.
QuietNet ==
    [head |-> [u \in {} |-> HeadResp(TRUE, 0, "", NoUrl)],
     page |-> [s \in {} |-> PageResp(TRUE, 0, NoUrl, NoUrl)]]

InitCursors == 0..MaxId

\* A last_ids value int() rejects (null, "abc", a list): int(None) raises
\* TypeError, int("abc") ValueError.
BadCursor == -1

\* The state files a monitor invocation can find: every file a former
\* invocation can have left, and the files of other shapes.
InitFiles ==
    {FileOf(k, EmptyMap, 0) : k \in {"missing", "malformed", "wrongshape"}}
    \cup {FileOf("legacy", EmptyMap, 1)}
    \cup {MultiFile(ids) : ids \in [SourceKeys -> InitCursors]}
    \cup {MultiFile(ids) : ids \in [{SOURCES[1].key} -> {1}]}

----------------------------------------------------------------------------
(* monitor *)

\* Mutant: the rows keep the order of the response.
InsertByRid_append(s, r) == Append(s, r)

\* new_items.sort(key=rid): list.sort is stable.
InsertByRid(s, r) ==
    LET k == Cardinality({i \in 1..Len(s) : rid(s[i]) <= rid(r)})
    IN  SubSeq(s, 1, k) \o <<r>> \o SubSeq(s, k + 1, Len(s))

RECURSIVE SortByRid(_)
SortByRid(s) ==
    IF s = <<>> THEN <<>>
    ELSE InsertByRid(SortByRid(SubSeq(s, 1, Len(s) - 1)), s[Len(s)])

IsNew(r, seen) == rid(r) > seen

\* Mutant: only the newest of the new rows is kept.
NewItems_newest(rows, seen) ==
    LET all == SortByRid(SelectSeq(rows, LAMBDA r : IsNew(r, seen)))
    IN  IF all = <<>> THEN <<>> ELSE <<all[Len(all)]>>

\* new_items of monitor: the rows newer than last_seen, oldest first
NewItems(rows, seen) == SortByRid(SelectSeq(rows, LAMBDA r : IsNew(r, seen)))

Goto(p, i) == [pc |-> p, fi |-> i]

\* Mutant: the cycle returns after the last source without the finally block.
AfterFeed_nosave(i) == IF i < Len(SOURCES) THEN Goto("feed", i + 1) ELSE Goto("done", i)

\* `continue` of the for loop; after the last source the loop ends and the
\* finally block runs.
AfterFeed(i) == IF i < Len(SOURCES) THEN Goto("feed", i + 1) ELSE Goto("save", i)

\* Mutant: an exception of a feed ends the cycle.
OnFeedException_abort(i) == Goto("save", i)

\* except Exception: continue  (the inner try)
OnFeedException(i) == AfterFeed(i)

\* highest id among the notifications sent in a pass (0 when none was)
MaxSentRid(sends) ==
    IF sends = <<>> THEN 0
    ELSE CHOOSE m \in {sends[i].rid : i \in DOMAIN sends} :
             \A i \in DOMAIN sends : sends[i].rid <= m

\* What the last iteration of the inner loop did: build_embed returned or
\* raised; the embed send and the plain-text send were not reached
\* ("skipped"), completed ("sent") or raised.
Iteration(build, embed, text) == [build |-> build, embed |-> embed, text |-> text]

NoIteration == Iteration("none", "skipped", "skipped")

NoPass ==
    [feed |-> 0, cursor0 |-> 0, resp |-> NoResp, selected |-> <<>>,
     attempted |-> <<>>, sends |-> <<>>, failures |-> {}, status |-> "none",
     last |-> NoIteration]

\* History of a cycle: the cursors the file held before it, how load_state
\* went, the cursors it returned, whether they are the cursors the previous
\* cycle ended with, the feeds polled so far and how each pass ended, the
\* feeds a notification was sent for, the highest id notified in a pass that
\* was then abandoned, and how save_state went; the shape of the file found,
\* the cursor each completed pass stored, whether an exception outside the
\* inner try ended the for loop, and the number of save_state calls.
NoCycle ==
    [ran |-> FALSE, before |-> EmptyMap, loadOK |-> FALSE, atLoad |-> EmptyState,
     resumed |-> FALSE, polled |-> {}, outcome |-> [f \in Feeds |-> "none"],
     notified |-> {}, lostNotified |-> [f \in Feeds |-> 0], saved |-> "none",
     found |-> "none", stored |-> [f \in Feeds |-> 0], aborted |-> FALSE,
     saves |-> 0]

\* load_state took its except branch
LoadRaised(f, ioerr) == ioerr \/ f.kind \in {"missing", "malformed", "wrongshape"}

\* channel is None: the invocation returns before load_state.
MonitorNoChannel ==
    /\ pc = "idle"
    /\ pc' = "done"
    /\ cycles' = cycles + 1
    /\ UNCHANGED <<file, state, fi, last_seen, new_items, imageid_cache,
                   logo_cache, upstream, pass, cyc, prevEnd, input, call, earlier>>

\* state = load_state(), then the for loop is entered.
LoadState ==
    /\ pc = "idle"
    /\ \E ioerr \in BOOLEAN :
         /\ state' = load_state(file, ioerr)
         /\ cyc' = [NoCycle EXCEPT !.ran = TRUE,
                                   !.before = file.last_ids,
                                   !.found = file.kind,
                                   !.loadOK = ~LoadRaised(file, ioerr),
                                   !.atLoad = load_state(file, ioerr),
                                   !.resumed = prevEnd /\ load_state(file, ioerr) = state]
    /\ pc' = "feed"
    /\ fi' = 1
    /\ pass' = NoPass
    /\ last_seen' = 0
    /\ new_items' = <<>>
    /\ UNCHANGED <<file, cycles, imageid_cache, logo_cache, upstream, prevEnd, input, call, earlier>>

\* for src in SOURCES: last_seen = int(state["last_ids"].get(src["key"], 0)).
\* The statement is outside the inner try: when int() rejects the stored
\* value the exception ends the for loop (except Exception: pass) and the
\* finally block runs.
BeginFeed ==
    /\ pc = "feed"
    /\ IF state[SOURCES[fi].key] = BadCursor
       THEN /\ pc' = "save"
            /\ pass' = NoPass
            /\ cyc' = [cyc EXCEPT !.aborted = TRUE]
            /\ UNCHANGED <<last_seen, new_items>>
       ELSE /\ last_seen' = state[SOURCES[fi].key]
            /\ new_items' = <<>>
            /\ pc' = "fetch"
            /\ pass' = [NoPass EXCEPT !.feed = fi, !.cursor0 = state[SOURCES[fi].key],
                                      !.status = "fetching"]
            /\ cyc' = cyc
    /\ UNCHANGED <<file, state, fi, cycles, imageid_cache, logo_cache, upstream,
                   prevEnd, input, call, earlier>>

\* The body of the inner try up to the inner loop: GET the feed, select and
\* sort the new rows.
PollFeedWith(resp) ==
    /\ pc = "fetch"
    /\ LET seen == last_seen
           sel == IF resp.kind = "ok" THEN NewItems(resp.rows, seen) ELSE <<>>
           status == IF resp.kind # "ok" THEN "fetch_failed"
                     ELSE IF sel = <<>> THEN "no_new" ELSE "running"
           nxt == IF resp.kind \in {"transport_error", "unparsable"}
                  THEN OnFeedException(fi) ELSE AfterFeed(fi)
       IN  /\ new_items' = sel
           /\ pc' = IF status = "running" THEN "notify" ELSE nxt.pc
           /\ fi' = IF status = "running" THEN fi ELSE nxt.fi
           /\ pass' = [pass EXCEPT !.resp = resp, !.selected = sel, !.status = status]
           /\ cyc' = [cyc EXCEPT !.polled = @ \cup {fi}, !.outcome[fi] = status]
    /\ UNCHANGED <<file, state, last_seen, cycles, imageid_cache, logo_cache,
                   upstream, prevEnd, input, call, earlier>>

PollFeed == \E resp \in Responses : PollFeedWith(resp)

\* One iteration of `for r in new_items`: build_embed and the embed send, the
\* plain-text send when either raised, then the cursor; an exception of the
\* plain-text send leaves the loop through the inner except.  After the last
\* row the cursor is stored in state.
\* Mutant: the cursor is stored under every key.
StoreCursor_all(st, key, seen) == [k \in DOMAIN st |-> seen]

\* state["last_ids"][src["key"]] = last_seen
StoreCursor(st, key, seen) == [st EXCEPT ![key] = seen]

\* Mutant: the except handler runs after every embed send.
EmbedDone_never(raised, embedSendOK) == FALSE

\* The try body of the inner loop (build_embed, then the embed send) ran
\* without an exception, so the except handler is not entered.
EmbedDone(raised, embedSendOK) == ~raised /\ embedSendOK

NotifyWith(b, embedSendOK, textSendOK) ==
    LET src == SOURCES[fi]
        r == Head(new_items)
        rest == Tail(new_items)
        embedDone == EmbedDone(b.raised, embedSendOK)
        delivered == embedDone \/ textSendOK
        fails == (IF b.raised THEN {"build"} ELSE {})
                 \cup (IF ~b.raised /\ ~embedSendOK THEN {"embed_send"} ELSE {})
                 \cup (IF ~delivered THEN {"text_send"} ELSE {})
        seen == Max(last_seen, rid(r))
        status == IF ~delivered THEN "aborted"
                  ELSE IF rest = <<>> THEN "done" ELSE "running"
        nxt == IF ~delivered THEN OnFeedException(fi) ELSE AfterFeed(fi)
    IN  /\ embedDone => textSendOK
        /\ imageid_cache' = b.ic
        /\ logo_cache' = b.lc
        /\ last_seen' = IF delivered THEN seen ELSE last_seen
        /\ new_items' = IF delivered THEN rest ELSE <<>>
        /\ state' = IF status = "done"
                    THEN StoreCursor(state, src.key, seen) ELSE state
        /\ pc' = IF status = "running" THEN "notify" ELSE nxt.pc
        /\ fi' = IF status = "running" THEN fi ELSE nxt.fi
        /\ pass' = [pass EXCEPT
                      !.attempted = Append(@, r),
                      !.sends = IF delivered
                                THEN Append(@, [rid |-> rid(r),
                                                kind |-> IF embedDone THEN "embed"
                                                         ELSE "text"])
                                ELSE @,
                      !.failures = @ \cup fails,
                      !.status = status,
                      !.last = Iteration(
                                 IF b.raised THEN "raised" ELSE "returned",
                                 IF b.raised THEN "skipped"
                                 ELSE IF embedSendOK THEN "sent" ELSE "raised",
                                 IF embedDone THEN "skipped"
                                 ELSE IF textSendOK THEN "sent" ELSE "raised")]
        /\ cyc' = [cyc EXCEPT
                     !.outcome[fi] = status,
                     !.stored[fi] = IF status = "done" THEN seen ELSE @,
                     !.notified = IF delivered THEN @ \cup {fi} ELSE @,
                     !.lostNotified[fi] = IF ~delivered THEN MaxSentRid(pass.sends)
                                         ELSE @]

NotifyRecord ==
    /\ pc = "notify"
    /\ \E embedSendOK, textSendOK \in BOOLEAN :
         NotifyWith(build_embed(QuietNet, imageid_cache, logo_cache,
                                Head(new_items), SOURCES[fi]),
                    embedSendOK, textSendOK)
    /\ UNCHANGED <<file, cycles, upstream, prevEnd, input, call, earlier>>

\* finally: save_state(state)
SaveState ==
    /\ pc = "save"
    /\ \E outcome \in SaveOutcomes :
         /\ file' = save_state(file, state, outcome)
         /\ cyc' = [cyc EXCEPT !.saved = outcome, !.saves = @ + 1]
    /\ prevEnd' = TRUE
    /\ pc' = "done"
    /\ cycles' = cycles + 1
    /\ fi' = 1
    /\ last_seen' = 0
    /\ new_items' = <<>>
    /\ pass' = NoPass
    /\ UNCHANGED <<state, imageid_cache, logo_cache, upstream, input, call, earlier>>

NoRow == PlainRow(IdMissing, NoTs)

\* The last direct call: its function and argument, the URL it returned and
\* the number of requests it issued; whether the argument was resolved
\* before, the URL the first earlier call returned and the URL an earlier
\* call resolved it to; for build_embed the row, whether it raised and the
\* embed; how the network answered during the call (per image id and per
\* slug) and the caches the call started with.
NoCall ==
    [fn |-> "none", arg |-> "", url |-> NoUrl, reqs |-> 0, calledBefore |-> FALSE,
     first |-> NoUrl, priorOk |-> NoUrl, raised |-> FALSE, row |-> NoRow,
     emb |-> NoEmbed, ib |-> EmptyMap, sb |-> EmptyMap, ic0 |-> EmptyMap,
     lc0 |-> EmptyMap, validated |-> TRUE]

ImageIds == {"a", "b"}

Slugs == {"s", "t"}

SeenKeys == ({"resolve_image_id"} \X ImageIds) \cup ({"fetch_logo_from_slug"} \X Slugs)

NotSeen == [called |-> FALSE, first |-> NoUrl, ok |-> NoUrl]

InitMonitor ==
    /\ file \in InitFiles
    /\ state = EmptyState
    /\ pc = "idle"
    /\ fi = 1
    /\ last_seen = 0
    /\ new_items = <<>>
    /\ cycles = 0
    /\ imageid_cache = EmptyMap
    /\ logo_cache = EmptyMap
    /\ pass = NoPass
    /\ cyc = NoCycle
    /\ prevEnd = FALSE
    /\ input = NoRow
    /\ call = NoCall
    /\ earlier = [k \in SeenKeys |-> NotSeen]

Init ==
    /\ InitMonitor
    /\ upstream = [f \in Feeds |-> NoResp]

\* tasks.loop(seconds=180): the next invocation of monitor.
Tick ==
    /\ pc = "done"
    /\ cycles < MaxCycles
    /\ pc' = "idle"
    /\ UNCHANGED <<file, state, fi, last_seen, new_items, cycles, imageid_cache,
                   logo_cache, upstream, pass, cyc, prevEnd, input, call, earlier>>

\* One invocation of monitor, from every state file it can find.
Next ==
    \/ MonitorNoChannel
    \/ LoadState
    \/ BeginFeed
    \/ PollFeed
    \/ NotifyRecord
    \/ SaveState

Spec == Init /\ [][Next]_vars

----------------------------------------------------------------------------
(* Replay runs: every feed answers each cycle with the same response. *)

ReplayRows == {PlainRow(IdInt(n), TsGood) : n \in 1..MaxId}

ReplayResponses ==
    FailedResponses \cup {Resp("ok", rows) : rows \in SeqsUpTo(ReplayRows, MaxRows)}

PollFeedReplay == PollFeedWith(upstream[fi])

InitReplay ==
    /\ InitMonitor
    /\ file.kind \in {"missing", "multi"}
    /\ upstream \in [Feeds -> ReplayResponses]

NextReplay ==
    \/ MonitorNoChannel
    \/ LoadState
    \/ BeginFeed
    \/ PollFeedReplay
    \/ NotifyRecord
    \/ SaveState
    \/ Tick

SpecReplay == InitReplay /\ [][NextReplay]_vars

----------------------------------------------------------------------------
(* Claims about the monitor *)

\* The pass over feed pass.feed has ended and the next statement of monitor
\* has not run yet.
PassEnded ==
    pc \in {"feed", "save"} /\ pass.status \in {"fetch_failed", "no_new", "done", "aborted"}

PassKey == SOURCES[pass.feed].key

Count(seq, x) == Cardinality({i \in DOMAIN seq : seq[i] = x})

Ascending(seq) ==
    \A i, j \in DOMAIN seq : i < j => rid(seq[i]) <= rid(seq[j])

\* max(c, max rid of rows)
MaxRidOr(c, rows) ==
    CHOOSE m \in {c} \cup {rid(rows[i]) : i \in DOMAIN rows} :
        /\ c <= m
        /\ \A i \in DOMAIN rows : rid(rows[i]) <= m

\* C1: a pass over a feed whose response R was fetched successfully, from
\* cursor C, selects exactly the rows of R with rid > C, processes them in
\* ascending rid order, and leaves the feed's cursor at max(C, max rid of R).
C1_PollContract ==
    (PassEnded /\ pass.resp.kind = "ok") =>
        /\ \A i \in DOMAIN pass.resp.rows :
               Count(pass.selected, pass.resp.rows[i]) =
                   IF rid(pass.resp.rows[i]) > pass.cursor0
                   THEN Count(pass.resp.rows, pass.resp.rows[i]) ELSE 0
        /\ Len(pass.selected) <= Len(pass.resp.rows)
        /\ Ascending(pass.selected)
        /\ pass.attempted = pass.selected
        /\ state[PassKey] = MaxRidOr(pass.cursor0, pass.resp.rows)

\* C2: the cursor save_state persists for a feed at the end of a cycle is
\* never lower than the cursor the file held for that feed before the cycle.
C2_PersistedCursorMonotone ==
    (pc = "done" /\ cyc.ran /\ cyc.saved = "ok") =>
        \A k \in SourceKeys \cap DOMAIN cyc.before :
            file.last_ids[k] >= cyc.before[k]

\* C3: load_state of a legacy file {"last_id": N} returns the mapping that
\* keeps N for one feed and gives 0 to the others.
C3_LegacyCursorKept ==
    (pc = "feed" /\ pass.status = "none" /\ file.kind = "legacy" /\ cyc.loadOK) =>
        \E k \in SourceKeys :
            /\ state[k] = file.last_id
            /\ \A j \in SourceKeys \ {k} : state[j] = 0

\* C4: once the payload was fetched, the feed's cursor ends at the highest id
\* among the new rows, also when build_embed, the embed send or the plain-text
\* send failed for some row.
C4_CursorAdvancesDespiteFailure ==
    (PassEnded /\ pass.resp.kind = "ok" /\ pass.selected # <<>>
         /\ pass.failures # {}) =>
        state[PassKey] = MaxRidOr(0, pass.selected)

\* C5: when a pass was abandoned after some of its rows were notified, the
\* cursor persisted at the end of the cycle is at least the id of every row
\* notified in that pass.
C5_AbortKeepsBestCursor ==
    (pc = "done" /\ cyc.ran /\ cyc.saved = "ok") =>
        \A f \in Feeds :
            cyc.outcome[f] = "aborted" =>
                file.last_ids[SOURCES[f].key] >= cyc.lostNotified[f]

\* C6: a feed whose fetch ends in a transport error, a status other than 200
\* or an unparsable body gets no notification and keeps its cursor, and the
\* feeds after it in SOURCES are polled in the same cycle.
C6_FetchFailureSkipsOnlyThatFeed ==
    /\ (PassEnded /\ pass.status = "fetch_failed") =>
           /\ pass.attempted = <<>>
           /\ pass.sends = <<>>
           /\ state[PassKey] = pass.cursor0
           /\ pass.feed < Len(SOURCES) => (pc = "feed" /\ fi = pass.feed + 1)
    /\ \A f \in Feeds :
           cyc.outcome[f] = "fetch_failed" =>
               /\ f \notin cyc.notified
               /\ state[SOURCES[f].key] = cyc.atLoad[SOURCES[f].key]
               /\ pc \in {"save", "done"} =>
                      \A g \in Feeds : g > f => g \in cyc.polled

C6_Witness ==
    /\ pc = "done"
    /\ cyc.outcome[1] = "fetch_failed"
    /\ cyc.polled = Feeds
    /\ 2 \in cyc.notified
    /\ cyc.saved = "ok"
    /\ file.last_ids[SOURCES[2].key] > cyc.atLoad[SOURCES[2].key]

\* C7: a cycle that starts from the cursors the previous cycle ended with and
\* gets the same feed responses sends no notification.
C7_RerunSendsNothing ==
    (pc = "done" /\ cyc.ran /\ cyc.resumed) => cyc.notified = {}

\* C8: every row selected as new gets an embed notification or a plain-text
\* notification.
C8_EverySelectedRowNotified ==
    (PassEnded /\ pass.resp.kind = "ok") =>
        /\ Len(pass.sends) = Len(pass.selected)
        /\ \A i \in DOMAIN pass.sends : pass.sends[i].rid = rid(pass.selected[i])

----------------------------------------------------------------------------
(* The network the resolvers see *)

Range(f) == {f[x] : x \in DOMAIN f}

\* URLs a team page can name
OgUrl(slug) == <<"cdn.virtualprogaming.com/og", slug, "jpg">>
MediaUrl(slug) == <<"virtualprogaming.com/media", slug, "jpeg">>

\* str(r.url) after a redirect
Redirected(u) == <<"cdn.virtualprogaming.com/r", u[2], u[3]>>

NotFound(u) == HeadResp(FALSE, 404, "text/html", u)
Raises == HeadResp(TRUE, 0, "", NoUrl)

\* How the CDN answers the k-th candidate u of an image id.
IdBehaviours == {"all404", "raises", "html", "first", "third_redirect", "octet_second"}

IdHead(beh, k, u) ==
    CASE beh = "all404" -> NotFound(u)
      [] beh = "raises" -> Raises
      [] beh = "html" -> HeadResp(FALSE, 200, "text/html", u)
      [] beh = "first" ->
           IF k = 1 THEN HeadResp(FALSE, 200, "image/png", u) ELSE NotFound(u)
      [] beh = "third_redirect" ->
           IF k < 3 THEN NotFound(u)
           ELSE HeadResp(FALSE, 200, "Image/PNG", Redirected(u))
      [] OTHER ->
           IF k = 1 THEN Raises
           ELSE IF k = 2 THEN HeadResp(FALSE, 200, "application/octet-stream", u)
           ELSE HeadResp(FALSE, 200, "IMAGE/WEBP", u)

\* How the site answers GET /team/<slug> and HEAD of the URLs of the page.
SlugBehaviours == {"raises", "non200", "no_match", "og_ok", "media_ok", "media_only", "both_bad"}

SlugPage(beh, slug) ==
    CASE beh = "raises" -> PageResp(TRUE, 0, NoUrl, NoUrl)
      [] beh = "non200" -> PageResp(FALSE, 404, OgUrl(slug), MediaUrl(slug))
      [] beh = "no_match" -> PageResp(FALSE, 200, NoUrl, NoUrl)
      [] beh = "media_only" -> PageResp(FALSE, 200, NoUrl, MediaUrl(slug))
      [] OTHER -> PageResp(FALSE, 200, OgUrl(slug), MediaUrl(slug))

SlugHead(beh, u, slug) ==
    CASE beh = "og_ok" -> HeadResp(FALSE, 200, "image/png", u)
      [] beh \in {"media_ok", "media_only"} ->
           IF u = OgUrl(slug) THEN NotFound(u)
           ELSE HeadResp(FALSE, 200, "image/webp", Redirected(u))
      [] beh = "both_bad" ->
           IF u = OgUrl(slug) THEN Raises ELSE HeadResp(FALSE, 200, "text/html", u)
      [] OTHER -> NotFound(u)

CandidateUrls == UNION {Range(Candidates(i)) : i \in ImageIds}

PageUrls == {OgUrl(sl) : sl \in Slugs} \cup {MediaUrl(sl) : sl \in Slugs}

\* The oracle in which image id i is answered as ib[i] and slug sl as sb[sl].
Net(ib, sb) ==
    [head |-> [u \in CandidateUrls \cup PageUrls |->
                 IF u \in CandidateUrls
                 THEN LET i == CHOOSE x \in ImageIds : u \in Range(Candidates(x))
                          k == CHOOSE j \in DOMAIN Candidates(i) : Candidates(i)[j] = u
                      IN  IdHead(ib[i], k, u)
                 ELSE LET sl == CHOOSE x \in Slugs : u \in {OgUrl(x), MediaUrl(x)}
                      IN  SlugHead(sb[sl], u, sl)],
     page |-> [sl \in Slugs |-> SlugPage(sb[sl], sl)]]

----------------------------------------------------------------------------
(* Direct calls of the resolvers, in one process lifetime *)

Noted(key, res) ==
    IF key \in SeenKeys
    THEN [earlier EXCEPT ![key] =
            [called |-> TRUE,
             first |-> IF @.called THEN @.first ELSE res.url,
             ok |-> IF @.ok # NoUrl THEN @.ok ELSE res.url]]
    ELSE earlier

CallOf(fn, arg, res) ==
    LET key == <<fn, arg>>
        was == IF key \in SeenKeys THEN earlier[key] ELSE NotSeen
    IN  [NoCall EXCEPT !.fn = fn, !.arg = arg, !.url = res.url, !.reqs = res.reqs,
                       !.calledBefore = was.called, !.first = was.first,
                       !.priorOk = was.ok]

\* The final URLs of the HEAD answers of net that have status 200 and an
\* image or application/octet-stream content type.
ValidUrls(net) ==
    {net.head[u].url : u \in {v \in DOMAIN net.head :
        /\ ~net.head[v].exc
        /\ net.head[v].status = 200
        /\ Lower(net.head[v].ct) \in
               {"image/png", "image/webp", "application/octet-stream"}}}

\* A URL the call got from the network is one of ValidUrls(net).
Validated(net, res) == (res.reqs > 0 /\ res.url # NoUrl) => res.url \in ValidUrls(net)

CallResolveImageId ==
    /\ \E image_id \in ImageIds \cup {""}, beh \in IdBehaviours :
         LET net == Net([i \in ImageIds |-> beh], [sl \in Slugs |-> "raises"])
             res == resolve_image_id(net, imageid_cache, image_id)
         IN  /\ imageid_cache' = res.cache
             /\ call' = [CallOf("resolve_image_id", image_id, res)
                           EXCEPT !.validated = Validated(net, res)]
             /\ earlier' = Noted(<<"resolve_image_id", image_id>>, res)
    /\ UNCHANGED <<monitorVars, logo_cache, input>>

CallFetchLogoFromSlug ==
    /\ \E slug \in Slugs \cup {""}, beh \in SlugBehaviours :
         LET net == Net([i \in ImageIds |-> "raises"], [sl \in Slugs |-> beh])
             res == fetch_logo_from_slug(net, logo_cache, slug)
         IN  /\ logo_cache' = res.cache
             /\ call' = [CallOf("fetch_logo_from_slug", slug, res)
                           EXCEPT !.validated = Validated(net, res)]
             /\ earlier' = Noted(<<"fetch_logo_from_slug", slug>>, res)
    /\ UNCHANGED <<monitorVars, imageid_cache, input>>

InitImage ==
    /\ InitMonitor
    /\ file = FileOf("missing", EmptyMap, 0)
    /\ upstream = [f \in Feeds |-> NoResp]

NextImage == CallResolveImageId \/ CallFetchLogoFromSlug

SpecImage == InitImage /\ [][NextImage]_vars

----------------------------------------------------------------------------
(* build_embed on one row *)

TsInputs ==
    {NoTs,
     Ts(1, 15, 10, 0),       \* winter, "Z"
     Ts(7, 15, 23, 0),       \* summer, the local time is on the next day
     Ts(1, 15, 0, 2),        \* "+02:00", the local time is on the day before
     Ts(13, 15, 10, 0),      \* no such month
     Ts(1, 15, 25, 0)}       \* no such hour

EmbedRows ==
    {Row(IdInt(1), ts, who[1], frm, to, who[2], who[3]) :
        ts \in TsInputs,
        who \in {<<"", "", 0>>, <<"alice", "a", 100>>},
        frm \in {NoTeam, Team("Ajax", "s", "a")},
        to \in {NoTeam, Team("PSV", "t", "b"), Team("PSV", "t", "")}}

EmbedIdBehaviours == {"all404", "raises", "first", "third_redirect"}

EmbedSlugBehaviours == {"raises", "no_match", "og_ok", "media_ok"}

CallBuildEmbed ==
    /\ call.fn = "none"
    /\ \E ib \in [ImageIds -> EmbedIdBehaviours], sb \in [Slugs -> EmbedSlugBehaviours],
          f \in Feeds :
         LET b == build_embed(Net(ib, sb), imageid_cache, logo_cache, input, SOURCES[f])
         IN  /\ imageid_cache' = b.ic
             /\ logo_cache' = b.lc
             /\ call' = [NoCall EXCEPT !.fn = "build_embed", !.reqs = b.reqs,
                                       !.raised = b.raised, !.row = input,
                                       !.emb = b.emb, !.ib = ib, !.sb = sb,
                                       !.ic0 = imageid_cache, !.lc0 = logo_cache]
    /\ UNCHANGED <<monitorVars, input, earlier>>

InitEmbed ==
    /\ file = FileOf("missing", EmptyMap, 0)
    /\ state = EmptyState
    /\ pc = "idle"
    /\ fi = 1
    /\ last_seen = 0
    /\ new_items = <<>>
    /\ cycles = 0
    /\ imageid_cache \in {EmptyMap, [i \in {"a"} |-> Candidates("a")[1]]}
    /\ logo_cache = EmptyMap
    /\ upstream = [f \in Feeds |-> NoResp]
    /\ pass = NoPass
    /\ cyc = NoCycle
    /\ prevEnd = FALSE
    /\ input \in EmbedRows
    /\ call = NoCall
    /\ earlier = [k \in SeenKeys |-> NotSeen]

NextEmbed == CallBuildEmbed

SpecEmbed == InitEmbed /\ [][NextEmbed]_vars

----------------------------------------------------------------------------
(* Claims about build_embed and the resolvers *)

\* C9: the embed build_embed builds for a row whose datetime is missing or
\* cannot be parsed has the footer "unknown"; for a datetime that parses the
\* footer is that time in Europe/Amsterdam.
C9_FooterOfBuiltEmbed ==
    (call.fn = "build_embed") =>
        /\ ~call.raised
        /\ IF IsoParsable(call.row.datetime)
           THEN /\ call.emb.footer.kind = "formatted"
                /\ call.emb.footer.tz \in {"CET", "CEST"}
                /\ 24 * call.emb.footer.day + call.emb.footer.hour =
                     24 * call.row.datetime.day + call.row.datetime.hour
                       - call.row.datetime.off
                       + (IF call.emb.footer.tz = "CEST" THEN 2 ELSE 1)
           ELSE call.emb.footer = FooterUnknown

\* C10 as stated: of two calls of a resolver with the same argument, the
\* second issues no request and returns the URL the first returned.
C10_SecondCallNeverProbes ==
    (call.fn \in {"resolve_image_id", "fetch_logo_from_slug"} /\ call.calledBefore) =>
        (call.reqs = 0 /\ call.url = call.first)

\* C10 amended: once a call of a resolver has returned a URL for an argument,
\* every later call with that argument issues no request and returns that URL.
C10_ResolvedIsMemoized ==
    (call.fn \in {"resolve_image_id", "fetch_logo_from_slug"} /\ call.priorOk # NoUrl) =>
        (call.reqs = 0 /\ call.url = call.priorOk)

C10_Witness ==
    /\ call.fn = "resolve_image_id"
    /\ call.arg = "a"
    /\ call.calledBefore
    /\ call.first = NoUrl
    /\ call.priorOk # NoUrl
    /\ call.reqs = 0
    /\ call.url = call.priorOk
    /\ earlier[<<"fetch_logo_from_slug", "s">>].ok # NoUrl

----------------------------------------------------------------------------
(* monitor on rows that name images, over a network that answers or fails *)

EnrichRows ==
    {Row(IdInt(1), ts, "alice", Team("Ajax", "s", "a"), Team("PSV", "t", "b"), "a", 100) :
        ts \in {NoTs, TsGood, TsBad}}

EnrichResponses == {Resp("ok", <<>>)} \cup {Resp("ok", <<r>>) : r \in EnrichRows}

\* Answers that resolve no image: 404, a transport error, a non-image type;
\* for a team page also a status other than 200 and a page without a match.
FailingIdBehaviours == {"all404", "raises", "html"}

FailingSlugBehaviours == {"raises", "non200", "no_match", "both_bad"}

EnrichIdBehaviours == FailingIdBehaviours \cup {"first"}

EnrichSlugBehaviours == FailingSlugBehaviours \cup {"og_ok"}

BuiltCall(b, row, ib, sb) ==
    [NoCall EXCEPT !.fn = "build_embed", !.reqs = b.reqs, !.raised = b.raised,
                   !.row = row, !.emb = b.emb, !.ib = ib, !.sb = sb,
                   !.ic0 = imageid_cache, !.lc0 = logo_cache]

\* The networks of these runs answer every image id alike and every slug alike.
UniformIds == {[i \in ImageIds |-> beh] : beh \in EnrichIdBehaviours}

UniformSlugs == {[sl \in Slugs |-> beh] : beh \in EnrichSlugBehaviours}

\* One iteration of `for r in new_items` over the network Net(ib, sb).
NotifyRecordNet ==
    /\ pc = "notify"
    /\ \E ib \in UniformIds, sb \in UniformSlugs, embedSendOK, textSendOK \in BOOLEAN :
         /\ NotifyWith(build_embed(Net(ib, sb), imageid_cache, logo_cache,
                                   Head(new_items), SOURCES[fi]),
                       embedSendOK, textSendOK)
         /\ call' = BuiltCall(build_embed(Net(ib, sb), imageid_cache, logo_cache,
                                          Head(new_items), SOURCES[fi]),
                              Head(new_items), ib, sb)
    /\ UNCHANGED <<file, cycles, upstream, prevEnd, input, earlier>>

InitEnrich ==
    /\ InitMonitor
    /\ file = FileOf("missing", EmptyMap, 0)
    /\ upstream \in [Feeds -> EnrichResponses]

NextEnrich ==
    \/ MonitorNoChannel
    \/ LoadState
    \/ BeginFeed
    \/ PollFeedReplay
    \/ NotifyRecordNet
    \/ SaveState

SpecEnrich == InitEnrich /\ [][NextEnrich]_vars

\* Every probe and page fetch of the last build_embed call failed, and no
\* cache held an entry when it started.
AllProbesFailed ==
    /\ call.fn = "build_embed"
    /\ \A i \in ImageIds : call.ib[i] \in FailingIdBehaviours
    /\ \A sl \in Slugs : call.sb[sl] \in FailingSlugBehaviours
    /\ call.ic0 = EmptyMap
    /\ call.lc0 = EmptyMap

\* C11: when every image probe and page fetch for a row fails, build_embed
\* raises only if the row's datetime cannot be parsed, never because of the
\* images; otherwise it returns an embed without thumbnail and image, the
\* embed send is attempted, and when that send completes the row is notified
\* as an embed and the plain-text fallback is not used.
C11_ImageFailureNeverBlocks ==
    (AllProbesFailed /\ pass.last.build # "none") =>
        /\ call.raised <=> (call.row.datetime.present /\ ~IsoParsable(call.row.datetime))
        /\ ~call.raised =>
               /\ call.emb.thumbnail = NoUrl
               /\ call.emb.image = NoUrl
               /\ pass.last.build = "returned"
               /\ pass.last.embed \in {"sent", "raised"}
               /\ pass.last.embed = "sent" =>
                      /\ pass.last.text = "skipped"
                      /\ pass.sends # <<>>
                      /\ pass.sends[Len(pass.sends)].kind = "embed"

C11_Witness ==
    /\ AllProbesFailed
    /\ call.ib["a"] = "html"
    /\ call.sb["t"] = "both_bad"
    /\ call.reqs > 0
    /\ ~call.raised
    /\ call.emb.image = NoUrl
    /\ pass.last.embed = "sent"
    /\ pass.sends # <<>>
    /\ pass.sends[Len(pass.sends)].kind = "embed"

----------------------------------------------------------------------------
(* monitor from state files of any content *)

\* State files no invocation of this configuration wrote: an entry for a key
\* that is not a configured feed, and a cursor int() rejects.
OddFiles ==
    {MultiFile([k \in SourceKeys \cup {"Archived"} |-> IF k = "Archived" THEN 2 ELSE 1])}
    \cup {MultiFile([k \in SourceKeys |-> IF k = SOURCES[f].key THEN BadCursor ELSE 0]) :
             f \in Feeds}

InitAnyFile ==
    /\ file \in InitFiles \cup OddFiles
    /\ state = EmptyState
    /\ pc = "idle"
    /\ fi = 1
    /\ last_seen = 0
    /\ new_items = <<>>
    /\ cycles = 0
    /\ imageid_cache = EmptyMap
    /\ logo_cache = EmptyMap
    /\ upstream = [f \in Feeds |-> NoResp]
    /\ pass = NoPass
    /\ cyc = NoCycle
    /\ prevEnd = FALSE
    /\ input = NoRow
    /\ call = NoCall
    /\ earlier = [k \in SeenKeys |-> NotSeen]

SpecAnyFile == InitAnyFile /\ [][Next]_vars

\* C12: a cycle that loaded the state calls save_state exactly once, with the
\* in-memory state, after every feed was attempted or an exception ended the
\* for loop; nothing of the cycle runs after the call.
C12_SavedOnceAtEnd ==
    /\ cyc.saves <= 1
    /\ cyc.saves = 1 => pc = "done"
    /\ (pc = "done" /\ cyc.ran) =>
           /\ cyc.saves = 1
           /\ cyc.saved \in SaveOutcomes
           /\ cyc.aborted \/ cyc.polled = Feeds
           /\ cyc.saved = "ok" => file = MultiFile(state)

C12_Witness ==
    /\ pc = "done"
    /\ cyc.aborted
    /\ cyc.outcome[1] = "aborted"
    /\ cyc.polled = {1}
    /\ cyc.saves = 1
    /\ cyc.saved = "ok"
    /\ file = MultiFile(state)

\* C13: load_state returns for every file, and what it returns has an entry
\* for every configured feed key: all entries are 0 when the file is missing,
\* is not JSON, has another shape or cannot be read; a key the file lacks gets
\* 0 and the keys the file holds keep their values.
C13_LoadStateTotal ==
    cyc.ran =>
        /\ pc # "idle"
        /\ SourceKeys \subseteq DOMAIN cyc.atLoad
        /\ (\/ ~cyc.loadOK
            \/ cyc.found \in {"missing", "malformed", "wrongshape"}) =>
               \A k \in SourceKeys : cyc.atLoad[k] = 0
        /\ (cyc.loadOK /\ cyc.found = "multi") =>
               \A k \in SourceKeys :
                   cyc.atLoad[k] = IF k \in DOMAIN cyc.before THEN cyc.before[k] ELSE 0

C13_Witness ==
    /\ cyc.ran
    /\ cyc.loadOK
    /\ cyc.found = "multi"
    /\ DOMAIN cyc.before = {SOURCES[1].key}
    /\ cyc.atLoad[SOURCES[1].key] = 1
    /\ cyc.atLoad[SOURCES[2].key] = 0

\* C14: when load_state read a file of the current format and no cursor
\* changed in the cycle, a successful save_state leaves the cursors of the
\* file as they were (the file itself when it held every configured key); and
\* load_state of the file a successful save_state(s) wrote returns s.
C14_StateRoundTrip ==
    (pc = "done" /\ cyc.ran /\ cyc.saved = "ok") =>
        /\ load_state(file, FALSE) = state
        /\ (cyc.loadOK /\ cyc.found = "multi" /\ state = cyc.atLoad) =>
               /\ file.kind = "multi"
               /\ load_state(file, FALSE) = cyc.atLoad
               /\ \A k \in DOMAIN cyc.before :
                      k \in DOMAIN file.last_ids /\ file.last_ids[k] = cyc.before[k]
               /\ SourceKeys \subseteq DOMAIN cyc.before => file.last_ids = cyc.before

C14_Witness ==
    /\ pc = "done"
    /\ cyc.ran
    /\ cyc.saved = "ok"
    /\ cyc.loadOK
    /\ cyc.found = "multi"
    /\ cyc.polled = Feeds
    /\ state = cyc.atLoad
    /\ "Archived" \in DOMAIN cyc.before
    /\ file.last_ids = cyc.before
    /\ load_state(file, FALSE) = state

\* C15: the notifications of one pass are sent in non-decreasing id order,
\* a pass that ran to its end has sent one notification per row newer than
\* the cursor, and while a feed is being processed no feed that comes later in
\* SOURCES has been notified in the cycle.
C15_SendsInOrder ==
    /\ \A i, j \in DOMAIN pass.sends :
           i < j => pass.sends[i].rid <= pass.sends[j].rid
    /\ pass.status = "done" =>
           Len(pass.sends) =
               Cardinality({i \in DOMAIN pass.resp.rows :
                               rid(pass.resp.rows[i]) > pass.cursor0})
    /\ pass.sends # <<>> => pass.feed \in cyc.notified
    /\ pass.feed # 0 => \A f \in cyc.notified : f <= pass.feed

C15_Witness ==
    /\ pass.feed = 2
    /\ pass.status = "done"
    /\ pass.cursor0 = 0
    /\ Len(pass.resp.rows) = 2
    /\ rid(pass.resp.rows[1]) = 2
    /\ rid(pass.resp.rows[2]) = 1
    /\ Len(pass.sends) = 2
    /\ pass.sends[1].rid = 1
    /\ pass.sends[2].rid = 2
    /\ 1 \in cyc.notified

\* The four ways to a large image, each resolved on its own from the caches
\* the call started with: destination logo by id, destination logo by slug,
\* source logo by id, source logo by slug.
LogoWays(net, ic, lc, r) ==
    << resolve_image_id(net, ic, r.to_logo).url,
       fetch_logo_from_slug(net, lc, r.to_slug).url,
       resolve_image_id(net, ic, r.from_logo).url,
       fetch_logo_from_slug(net, lc, r.from_slug).url >>

\* The first of the ways that resolved, NoUrl when none did.
FirstResolved(ways) ==
    IF \A k \in DOMAIN ways : ways[k] = NoUrl THEN NoUrl
    ELSE ways[CHOOSE k \in DOMAIN ways :
                 /\ ways[k] # NoUrl
                 /\ \A j \in DOMAIN ways : j < k => ways[j] = NoUrl]

LastCallWays == LogoWays(Net(call.ib, call.sb), call.ic0, call.lc0, call.row)

\* C16: the image of the embed build_embed returns is the first that resolves
\* of: destination logo by id, destination logo by slug, source logo by id,
\* source logo by slug; the embed has no image when none resolves.
C16_LargeImagePriority ==
    (call.fn = "build_embed" /\ ~call.raised) =>
        call.emb.image = FirstResolved(LastCallWays)

C16_Witness ==
    /\ call.fn = "build_embed"
    /\ ~call.raised
    /\ LastCallWays[1] = NoUrl
    /\ LastCallWays[2] # NoUrl
    /\ LastCallWays[3] # NoUrl
    /\ LastCallWays[2] # LastCallWays[3]
    /\ call.emb.image = LastCallWays[2]

\* Number of notifications of a pass that carry the id x.
SendsOf(sends, x) == Cardinality({j \in DOMAIN sends : sends[j].rid = x})

\* Number of rows of a response whose rid is x.
RowsOf(rows, x) == Cardinality({i \in DOMAIN rows : rid(rows[i]) = x})

\* C17: the cursor of a feed never decreases in a pass and changes only when
\* the pass ran to its end; every row of the response whose id lies above the
\* cursor the pass started from and at or below the cursor it left has had a
\* send (embed or plain text) that completed in this pass.
C17_CursorNeverAheadOfDelivery ==
    pass.feed # 0 =>
        /\ state[PassKey] >= pass.cursor0
        /\ state[PassKey] > pass.cursor0 => pass.status = "done"
        /\ \A i \in DOMAIN pass.resp.rows :
               (/\ rid(pass.resp.rows[i]) > pass.cursor0
                /\ rid(pass.resp.rows[i]) <= state[PassKey]) =>
                   SendsOf(pass.sends, rid(pass.resp.rows[i])) =
                       RowsOf(pass.resp.rows, rid(pass.resp.rows[i]))

C17_Witness ==
    /\ pass.feed # 0
    /\ pass.cursor0 = 0
    /\ state[PassKey] = 2
    /\ Len(pass.resp.rows) = 2
    /\ Len(pass.sends) = 2
    /\ pass.sends[1].kind = "text"
    /\ pass.sends[2].kind = "embed"
    /\ "embed_send" \in pass.failures

\* C18: in a cycle the entry of a feed key differs from what load_state
\* returned only when the pass over that feed ran to its end, and then it is
\* the cursor that pass stored; the entries of keys that are no configured
\* feed stay as loaded; a successful save_state writes all entries back, so
\* the entries the file held for such keys are unchanged when load_state had
\* read the file.
C18_PassChangesOwnCursorOnly ==
    cyc.ran =>
        /\ DOMAIN state = DOMAIN cyc.atLoad
        /\ \A k \in (DOMAIN state) \ SourceKeys : state[k] = cyc.atLoad[k]
        /\ \A f \in Feeds :
               state[SOURCES[f].key] =
                   IF cyc.outcome[f] = "done" THEN cyc.stored[f]
                   ELSE cyc.atLoad[SOURCES[f].key]
        /\ (pc = "done" /\ cyc.saved = "ok") =>
               /\ file.last_ids = state
               /\ (cyc.loadOK /\ cyc.found = "multi") =>
                      \A k \in (DOMAIN cyc.before) \ SourceKeys :
                          k \in DOMAIN file.last_ids /\ file.last_ids[k] = cyc.before[k]

C18_Witness ==
    /\ pc = "done"
    /\ cyc.ran
    /\ cyc.saved = "ok"
    /\ cyc.outcome[1] = "done"
    /\ cyc.outcome[2] = "aborted"
    /\ "Archived" \in DOMAIN cyc.before
    /\ "Archived" \in DOMAIN file.last_ids
    /\ file.last_ids["Archived"] = cyc.before["Archived"]
    /\ file.last_ids[SOURCES[1].key] > cyc.before[SOURCES[1].key]
    /\ file.last_ids[SOURCES[2].key] = cyc.before[SOURCES[2].key]

\* seq is a prefix of full
IsPrefix(seq, full) ==
    Len(seq) <= Len(full) /\ \A i \in DOMAIN seq : seq[i] = full[i]

\* C19: in a pass every row of the response is selected at most once, the
\* rows are attempted in the order selected, and each attempted row has at
\* most one completed send, an embed or a plain text, never both; the
\* plain-text send is attempted only after build_embed or the embed send
\* raised for that row.  (A record is a row of the response.)
C19_AtMostOneSendPerRow ==
    /\ \A i \in DOMAIN pass.resp.rows :
           Count(pass.selected, pass.resp.rows[i]) <=
               Count(pass.resp.rows, pass.resp.rows[i])
    /\ IsPrefix(pass.attempted, pass.selected)
    /\ Len(pass.sends) <= Len(pass.attempted)
    /\ Len(pass.attempted) <= Len(pass.sends) + 1
    /\ \A i \in DOMAIN pass.sends :
           /\ pass.sends[i].rid = rid(pass.attempted[i])
           /\ pass.sends[i].kind \in {"embed", "text"}
    /\ pass.last.embed = "sent" => pass.last.text = "skipped"
    /\ pass.last.text # "skipped" =>
           (pass.last.build = "raised" \/ pass.last.embed = "raised")

C19_Witness ==
    /\ Len(pass.sends) = 2
    /\ pass.sends[1].rid = 1
    /\ pass.sends[1].kind = "text"
    /\ "build" \in pass.failures
    /\ pass.sends[2].rid = 2
    /\ pass.sends[2].kind = "embed"
    /\ pass.last = Iteration("returned", "sent", "skipped")

\* The entry a cache holds for key k of resolver fn is the first URL a call
\* of fn resolved k to, and the cache has no entry while no call resolved k.
WriteOnce(cache, fn, k) ==
    IF earlier[<<fn, k>>].ok = NoUrl THEN k \notin DOMAIN cache
    ELSE k \in DOMAIN cache /\ cache[k] = earlier[<<fn, k>>].ok

\* C20: every URL a resolver takes from the network, and so every cache
\* entry, is the final URL of a HEAD answer with status 200 and an image or
\* application/octet-stream content type; an entry stays as first written; a
\* resolution that fails writes no entry, and a call for a key no earlier
\* call resolved issues requests again.
C20_CachesValidatedWriteOnce ==
    /\ DOMAIN imageid_cache \subseteq ImageIds
    /\ DOMAIN logo_cache \subseteq Slugs
    /\ \A i \in ImageIds : WriteOnce(imageid_cache, "resolve_image_id", i)
    /\ \A sl \in Slugs : WriteOnce(logo_cache, "fetch_logo_from_slug", sl)
    /\ call.validated
    /\ (call.fn \in {"resolve_image_id", "fetch_logo_from_slug"} /\ call.arg # "") =>
           /\ call.priorOk = NoUrl => call.reqs > 0
           /\ (call.priorOk = NoUrl /\ call.url = NoUrl) =>
                  /\ call.arg \notin DOMAIN imageid_cache
                  /\ call.arg \notin DOMAIN logo_cache

C20_Witness ==
    /\ call.fn = "fetch_logo_from_slug"
    /\ call.arg = "s"
    /\ call.calledBefore
    /\ call.priorOk = NoUrl
    /\ call.reqs > 0
    /\ call.url = Redirected(MediaUrl("s"))
    /\ logo_cache["s"] = call.url
    /\ "a" \in DOMAIN imageid_cache
    /\ earlier[<<"resolve_image_id", "b">>].called
    /\ "b" \notin DOMAIN imageid_cache

====
